---- MODULE Spec2Model ----
(***************************************************************************)
(* The Jira connector of onyx (backend/onyx/connectors/onyx_jira/          *)
(* connector.py) as a state machine: the Search Pager                      *)
(* (_paginate_jql_search), the Record Transformer                          *)
(* (fetch_jira_issues_batch) and the Connector Orchestrator                *)
(* (JiraConnector), driven by one caller that pulls batches from the       *)
(* generators, and a remote service that answers the calls.                *)
(*                                                                         *)
(* The variables describe the connector object, the environment it runs   *)
(* in, and the most recent operation the caller invoked with the trace of  *)
(* what that operation did (remote calls issued, records yielded, batches  *)
(* handed over).                                                           *)
(***************************************************************************)
EXTENDS Integers, Sequences, FiniteSets, TLC

(***************************************************************************)
(* Program constants.                                                      *)
(***************************************************************************)
_JIRA_SLIM_PAGE_SIZE == 500

_JIRA_FULL_PAGE_SIZE == 50

\* app_configs: int(os.environ.get("JIRA_CONNECTOR_MAX_TICKET_SIZE", 100 * 1024))
JIRA_CONNECTOR_MAX_TICKET_SIZE == 102400

(***************************************************************************)
(* Bounds of the model.                                                    *)
(***************************************************************************)
\* the result sets of the full-content modes span up to this many full pages
MaxFullPages == 2

\* the result sets of the identifier-only mode span up to this many full pages
MaxSlimPages == 1

(***************************************************************************)
(* Python values.                                                          *)
(***************************************************************************)
\* Optional values: None is the empty tuple, a present value x is <<x>>.
None == <<>>

Some(x) == <<x>>

Min(a, b) == IF a <= b THEN a ELSE b

Max(a, b) == IF a >= b THEN a ELSE b

Range(s) == {s[k] : k \in 1..Len(s)}

\* a raised exception; NoError when the operation has raised nothing
NoError == [type |-> "none", msg |-> <<>>]

Raise(type, msg) == [type |-> type, msg |-> msg]

(***************************************************************************)
(* The remote result set.  env.n records, numbered 1..env.n in the order   *)
(* the remote returns them; the fields of record i follow the periodic     *)
(* pattern env.shape.  A page is a sequence of elements: a record number   *)
(* (an Issue) or NotAnIssue (an object that is not an Issue).              *)
(***************************************************************************)
Kinds == {"plain", "secret", "public", "mixed", "commented", "edge", "over"}

KindAt(shape, i) == shape[((i - 1) % Len(shape)) + 1]

\* issue.fields.labels
LabelsOf(kind) ==
    CASE kind = "secret" -> {"secret"}
      [] kind = "public" -> {"public"}
      [] kind = "mixed"  -> {"public", "secret"}
      [] OTHER           -> {}

\* UTF-8 byte length of the description text
DescriptionBytes(kind) ==
    CASE kind = "edge" -> JIRA_CONNECTOR_MAX_TICKET_SIZE - 1
      [] kind = "over" -> JIRA_CONNECTOR_MAX_TICKET_SIZE
      [] OTHER         -> 20

\* UTF-8 byte lengths of the comment strings get_comment_strs returns
CommentBytes(kind) == IF kind = "commented" THEN <<5, 0, 7>> ELSE <<>>

\* what the creator / assignee field of a record may hold: a person, a person
\* object without name and email, nothing, or an object the extraction
\* chokes on
PersonRefs == {"alice", "bob", "anonymous", "absent", "malformed"}

\* the <<creator, assignee>> of the records, a periodic pattern of its own
OwnerPatterns ==
    <<<<"alice", "bob">>, <<"alice", "malformed">>, <<"malformed", "bob">>,
      <<"alice", "alice">>, <<"malformed", "absent">>, <<"anonymous", "bob">>,
      <<"absent", "anonymous">>>>

OwnersAt(i) == OwnerPatterns[((i - 1) % Len(OwnerPatterns)) + 1]

IssueAt(e, i) ==
    LET kind == KindAt(e.shape, i)
    IN  [key         |-> i,
         labels      |-> LabelsOf(kind),
         description |-> DescriptionBytes(kind),
         comments    |-> CommentBytes(kind),
         creator     |-> OwnersAt(i)[1],
         assignee    |-> OwnersAt(i)[2]]

NotAnIssue == 0

\* the type of the element is not checked
IsIssueUnchecked(x) == TRUE

\* isinstance(issue, Issue)
IsIssue(x) == x # NotAnIssue

\* jira_client.search_issues(jql_str, startAt, maxResults, fields) on a remote
\* that serves the request: the records at positions startAt ..
\* min(startAt + maxResults, n) - 1 (0-based), i.e. numbers startAt + 1 ..
ServedPage(e, startAt, maxResults) ==
    [k \in 1..Max(0, Min(startAt + maxResults, e.n) - startAt) |-> startAt + k]

\* the same page with the element at position j replaced by a non-Issue
JunkPage(page, j) == [k \in 1..Len(page) |-> IF k = j THEN NotAnIssue ELSE page[k]]

(***************************************************************************)
(* Query construction.                                                     *)
(***************************************************************************)
\* Python truthiness of an optional string
Truthy(s) == s # None /\ s[1] # ""

\* JiraConnector.quoted_jira_project
quoted_jira_project(project) ==
    IF ~Truthy(project) THEN "" ELSE "\"" \o project[1] \o "\""

\* JiraConnector._get_jql_query
_get_jql_query(project) ==
    IF Truthy(project) THEN "project = " \o quoted_jira_project(project) ELSE ""

(***************************************************************************)
(* Time rendering.  An epoch value (a float of seconds) is modelled as     *)
(* [sec, frac]: whole seconds and the fraction in units of 1e-7 s, which   *)
(* is the resolution of a double near today's epoch values.                *)
(***************************************************************************)
TicksPerMicro == 10

MicrosPerSecond == 1000000

Digits == <<"0", "1", "2", "3", "4", "5", "6", "7", "8", "9">>

Pad2(n) == Digits[((n \div 10) % 10) + 1] \o Digits[(n % 10) + 1]

Pad4(n) == Pad2(n \div 100) \o Pad2(n % 100)

\* round(frac * 1e6), ties to even, as datetime.fromtimestamp rounds
RoundMicros(frac) ==
    LET q == frac \div TicksPerMicro
        r == frac % TicksPerMicro
    IN  IF 2 * r > TicksPerMicro \/ (2 * r = TicksPerMicro /\ q % 2 = 1)
        THEN q + 1 ELSE q

\* datetime.fromtimestamp(t, tz=timezone.utc), to the second: the fraction is
\* rounded to microseconds and a rounded-up full second carries
fromtimestamp(t) ==
    IF RoundMicros(t.frac) >= MicrosPerSecond THEN t.sec + 1 ELSE t.sec

\* the proleptic Gregorian date of a day number (days since 1970-01-01)
CivilFromDays(days) ==
    LET z   == days + 719468
        era == z \div 146097
        doe == z - era * 146097
        yoe == (doe - doe \div 1460 + doe \div 36524 - doe \div 146096) \div 365
        doy == doe - (365 * yoe + yoe \div 4 - yoe \div 100)
        mp  == (5 * doy + 2) \div 153
        d   == doy - (153 * mp + 2) \div 5 + 1
        m   == IF mp < 10 THEN mp + 3 ELSE mp - 9
        y   == yoe + era * 400 + (IF m <= 2 THEN 1 ELSE 0)
    IN  [year |-> y, month |-> m, day |-> d]

\* .strftime("%Y-%m-%d %H:%M") of the UTC datetime at `seconds`
strftime(seconds) ==
    LET date == CivilFromDays(seconds \div 86400)
        sod  == seconds % 86400
    IN  Pad4(date.year) \o "-" \o Pad2(date.month) \o "-" \o Pad2(date.day)
        \o " " \o Pad2(sod \div 3600) \o ":" \o Pad2((sod % 3600) \div 60)

\* the time is rendered to the nearest minute instead of the minute it is in
DateStrNearestMinute(t) == strftime(fromtimestamp(t) + 30)

\* poll_source: start_date_str, end_date_str
DateStr(t) == strftime(fromtimestamp(t))

\* poll_source: the query sent for the window (s, e)
PollJql(project, s, e) ==
    LET base_jql == _get_jql_query(project)
    IN  (IF base_jql # "" THEN base_jql \o " AND " ELSE "")
        \o "updated >= '" \o DateStr(s) \o "' AND updated <= '" \o DateStr(e) \o "'"

VARIABLES
    jira_client,      \* self._jira_client: None or <<handle>>
    config,           \* the constructor's arguments kept on self
    env,              \* the environment: remote result set, caller's inputs
    mode,             \* the operation most recently invoked
    args,             \* its arguments <<start, end>>
    pc,               \* where that operation is
    pulls,            \* how many times the caller has called next() on it
    error,            \* the exception it raised, or NoError
    requests,         \* the remote calls it issued, in order
    call,             \* the pager's parameters: jql, max_results, fields
    start,            \* the pager's offset
    issues,           \* the page the pager is iterating over
    idx,              \* how many elements of that page it has passed
    yielded,          \* the records the pager has yielded, in order
    checked,          \* the records that reached the size check, in order
    document_batch,   \* the batch being accumulated
    emitted           \* the batches handed to the caller, in order

vars == <<jira_client, config, env, mode, args, pc, pulls, error, requests, call,
          start, issues, idx, yielded, checked, document_batch, emitted>>

runVars == <<requests, call, start, issues, idx, yielded, checked,
             document_batch, emitted>>

\* no generator body has run
NoCall == [jql |-> "", max_results |-> 0, fields |-> None, jira_client |-> None]

RunInit ==
    /\ requests = <<>>
    /\ call = NoCall
    /\ start = 0
    /\ issues = <<>>
    /\ idx = 0
    /\ yielded = <<>>
    /\ checked = <<>>
    /\ document_batch = <<>>
    /\ emitted = <<>>

RunReset ==
    /\ requests' = <<>>
    /\ call' = NoCall
    /\ start' = 0
    /\ issues' = <<>>
    /\ idx' = 0
    /\ yielded' = <<>>
    /\ checked' = <<>>
    /\ document_batch' = <<>>
    /\ emitted' = <<>>

(***************************************************************************)
(* The inputs explored.  Each family varies some of the inputs and fixes   *)
(* the others; the initial states are the union of the families.           *)
(***************************************************************************)
Epoch(sec, frac) == [sec |-> sec, frac |-> frac]

\* 2023-11-14 22:13:20 and one hour later
Window0 == <<Epoch(1700000000, 0), Epoch(1700003600, 0)>>

\* epoch values around the minute boundary 22:13 / 22:14 and around 00:00 / 00:01
PollTimes ==
    {Epoch(1700000000, 0), Epoch(1700003600, 0), Epoch(1700000039, 0),
     Epoch(1700000039, 9999998), Epoch(1700000040, 0), Epoch(59, 9999994),
     Epoch(59, 9999995), Epoch(1700000039, 9999990), Epoch(0, 0)}

\* windows that vary the start against a fixed end, and the end against a
\* fixed start
PollWindows ==
    {<<t, Epoch(1700003600, 0)>> : t \in PollTimes}
    \cup {<<Epoch(0, 0), t>> : t \in PollTimes}

PageSizes(pages, max_results) ==
    {k * max_results + d : k \in 0..pages, d \in {-1, 0, 1}} \cap Nat

FullSizes == PageSizes(MaxFullPages, _JIRA_FULL_PAGE_SIZE)

SlimSizes == PageSizes(MaxSlimPages, _JIRA_SLIM_PAGE_SIZE) \ FullSizes

BatchSizes == {1, 3, _JIRA_FULL_PAGE_SIZE, _JIRA_FULL_PAGE_SIZE + 1}

\* result-set patterns, each with a labels_to_skip setting
Datasets ==
    {<<<<"plain">>, {}>>,
     <<<<"secret", "plain">>, {"secret"}>>,
     <<<<"plain", "public", "mixed">>, {"secret"}>>,
     <<<<"plain", "public", "mixed">>, {}>>,
     <<<<"over", "commented", "edge", "secret">>, {"secret"}>>}

JiraBase == "https://jira.example.com"

Connector(project, batch, skip) ==
    [jira_base      |-> JiraBase,
     jira_project   |-> project,
     batch_size     |-> batch,
     labels_to_skip |-> skip]

RetrievalModes == {"load", "poll", "slim"}

\* the remote's result set and behaviour, and what the caller does: the
\* retrieval operations it invokes, the poll windows and credentials it passes
Environment(n, shape, faulty, windows, modes) ==
    [n |-> n, shape |-> shape, faulty |-> faulty, windows |-> windows,
     modes |-> modes, credentials |-> {"token"}]

\* batch sizes, filters and result-set sizes around the page boundaries
BatchingFamily ==
    \E batch \in BatchSizes, n \in FullSizes, data \in Datasets :
        /\ config = Connector(Some("OPS"), batch, data[2])
        /\ env = Environment(n, data[1], FALSE, {Window0}, RetrievalModes)

\* result sets around the page size of the identifier-only listing
SlimFamily ==
    \E n \in SlimSizes :
        /\ config = Connector(Some("OPS"), _JIRA_FULL_PAGE_SIZE, {})
        /\ env = Environment(n, <<"plain">>, FALSE, {Window0}, {"slim"})

\* project scopes and poll windows
QueryFamily ==
    \E project \in {None, Some(""), Some("OPS")}, n \in {0, 1} :
        /\ config = Connector(project, 1, {})
        /\ env = Environment(n, <<"plain">>, FALSE, PollWindows, RetrievalModes)

\* a remote that may fail a call or return an object that is not an Issue,
\* and a caller that has two sets of credentials to load
FaultFamily ==
    \E project \in {None, Some("OPS")}, batch \in {1, 3},
       n \in {0, 2, _JIRA_FULL_PAGE_SIZE + 1} :
        /\ config = Connector(project, batch, {"secret"})
        /\ env = [Environment(n, <<"plain", "secret">>, TRUE, {Window0},
                              RetrievalModes)
                     EXCEPT !.credentials = {"token", "renewed"}]

Init ==
    /\ jira_client = None
    /\ BatchingFamily \/ SlimFamily \/ QueryFamily \/ FaultFamily
    /\ mode = "none"
    /\ args = <<None, None>>
    /\ pc = "idle"
    /\ pulls = 0
    /\ error = NoError
    /\ RunInit

\* the caller is blocked in next(): the generators are running
Pulling == pc \in {"search", "page"}

(***************************************************************************)
(* JiraConnector.load_credentials                                          *)
(***************************************************************************)
\* utils.build_jira_client: the authenticated handle (client_info() is its server)
build_jira_client(credentials, jira_base) ==
    [server |-> jira_base, credentials |-> credentials]

load_credentials(credentials) ==
    /\ ~Pulling
    /\ jira_client' = Some(build_jira_client(credentials, config.jira_base))
    /\ UNCHANGED <<config, env, mode, args, pc, pulls, error, runVars>>

(***************************************************************************)
(* Calling a generator function creates the generator and runs none of    *)
(* its body.  The caller runs one operation at a time: invoking an         *)
(* operation drops the generator of the previous one.                      *)
(***************************************************************************)
Invoke(m, a) ==
    /\ ~Pulling
    /\ m \in env.modes
    /\ mode' = m
    /\ args' = a
    /\ pc' = "created"
    /\ pulls' = 0
    /\ error' = NoError
    /\ RunReset
    /\ UNCHANGED <<jira_client, config, env>>

load_from_state == Invoke("load", <<None, None>>)

poll_source == \E w \in env.windows : Invoke("poll", <<Some(w[1]), Some(w[2])>>)

retrieve_all_slim_documents ==
    \E a \in {<<None, None>>} \cup {<<Some(w[1]), Some(w[2])>> : w \in env.windows} :
        Invoke("slim", a)

(***************************************************************************)
(* The generators.  load_from_state / poll_source drive                    *)
(* fetch_jira_issues_batch, which drives _paginate_jql_search;             *)
(* retrieve_all_slim_documents drives _paginate_jql_search directly.       *)
(* pc: "created" (no body run yet), "search" (the pager is about to call   *)
(* search_issues), "page" (the pager is in its for loop over the page),    *)
(* "yielded" (suspended at the yield of a full batch), "final" (suspended  *)
(* at the last yield), "done" (returned), "failed" (raised), "abandoned"   *)
(* (the caller stopped consuming).                                         *)
(***************************************************************************)
\* the handle is used without the check for None
ClientMissingUnchecked(client) == FALSE

\* if self._jira_client is None
ClientMissing(client) == client = None

\* raise ConnectorMissingCredentialError("Jira")
MissingCredential == Raise("ConnectorMissingCredentialError", <<"Jira">>)

\* the identifier listing applies its time bounds, when given, to the query
PagerCallSlimWindowed(m, project, a, client) ==
    CASE m = "slim" ->
           [jql |-> IF a[1] = None \/ a[2] = None THEN _get_jql_query(project)
                    ELSE PollJql(project, a[1][1], a[2][1]),
            max_results |-> _JIRA_SLIM_PAGE_SIZE,
            fields |-> Some("key"), jira_client |-> client]
      [] m = "poll" ->
           [jql |-> PollJql(project, a[1][1], a[2][1]),
            max_results |-> _JIRA_FULL_PAGE_SIZE,
            fields |-> None, jira_client |-> client]
      [] OTHER ->
           [jql |-> _get_jql_query(project), max_results |-> _JIRA_FULL_PAGE_SIZE,
            fields |-> None, jira_client |-> client]

\* the query, page size and field restriction each mode hands to the pager
PagerCall(m, project, a, client) ==
    CASE m = "load" ->
           [jql |-> _get_jql_query(project), max_results |-> _JIRA_FULL_PAGE_SIZE,
            fields |-> None, jira_client |-> client]
      [] m = "poll" ->
           [jql |-> PollJql(project, a[1][1], a[2][1]),
            max_results |-> _JIRA_FULL_PAGE_SIZE,
            fields |-> None, jira_client |-> client]
      [] m = "slim" ->
           [jql |-> _get_jql_query(project), max_results |-> _JIRA_SLIM_PAGE_SIZE,
            fields |-> Some("key"), jira_client |-> client]

\* the batch size each mode accumulates to
BatchSizeOf(m, cfg) == IF m = "slim" THEN _JIRA_SLIM_PAGE_SIZE ELSE cfg.batch_size

\* a batch is yielded only once it has grown past the batch size
BatchFullOffByOne(batch, size) == Len(batch) > size

\* len(document_batch) >= batch size
BatchFull(batch, size) == Len(batch) >= size

\* pagination stops only at an empty page
PageExhaustedWhenEmpty(page, max_results) == Len(page) = 0

\* len(issues) < max_results
PageExhausted(page, max_results) == Len(page) < max_results

\* a record is skipped only when it carries every label of labels_to_skip
HasEveryLabelToSkip(labels, labels_to_skip) ==
    labels_to_skip # {} /\ labels \subseteq labels_to_skip /\ labels # {}

\* if labels_to_skip: if any(label in issue.fields.labels for label in labels_to_skip)
HasLabelToSkip(labels, labels_to_skip) ==
    labels_to_skip # {} /\ \E label \in labels_to_skip : label \in labels

RECURSIVE SumBytes(_)
SumBytes(lens) == IF lens = <<>> THEN 0 ELSE Head(lens) + SumBytes(Tail(lens))

\* UTF-8 byte length of f"{description}\n" + "\n".join(f"Comment: {c}" for c in
\* comments if c): 9 bytes of marker per kept comment, a newline between two
TicketContentBytes(description, comments) ==
    LET kept == SelectSeq(comments, LAMBDA c : c > 0)
    IN  description + 1 + SumBytes(kept) + 9 * Len(kept) + Max(0, Len(kept) - 1)

\* a record of exactly the maximum size is dropped too
ExceedsMaxSizeInclusive(bytes) == bytes >= JIRA_CONNECTOR_MAX_TICKET_SIZE

\* len(ticket_content.encode("utf-8")) > JIRA_CONNECTOR_MAX_TICKET_SIZE
ExceedsMaxSize(bytes) == bytes > JIRA_CONNECTOR_MAX_TICKET_SIZE

\* the decimal numeral of a natural number
RECURSIVE Decimal(_)
Decimal(n) ==
    IF n < 10 THEN Digits[n + 1] ELSE Decimal(n \div 10) \o Digits[(n % 10) + 1]

\* the text of issue.key: record i of the result set is the issue OPS-<i>
KeyText(key) == "OPS-" \o Decimal(key)

\* the link carries the account the client is logged in with
PageUrlWithAccount(client, key) ==
    client[1].server \o "/browse/" \o KeyText(key) \o "?as=" \o client[1].credentials

\* f"{jira_client.client_info()}/browse/{issue.key}"
PageUrl(client, key) == client[1].server \o "/browse/" \o KeyText(key)

\* utils.build_jira_url(jira_client, issue_key): the same link-based id scheme
build_jira_url(client, issue_key) ==
    client[1].server \o "/browse/" \o KeyText(issue_key)

\* best_effort_basic_expert_info(best_effort_get_field_from_issue(issue, field)):
\* raises, or returns None, or returns the person's descriptor
best_effort_basic_expert_info(ref) ==
    CASE ref = "malformed"              -> [raised |-> TRUE, value |-> None]
      [] ref \in {"absent", "anonymous"} -> [raised |-> FALSE, value |-> None]
      [] OTHER -> [raised |-> FALSE, value |-> Some([display_name |-> ref])]

\* try: if basic_expert_info := ...: people.add(basic_expert_info)
\* except Exception: pass
AddPerson(people, ref) ==
    LET info == best_effort_basic_expert_info(ref)
    IN  IF info.raised \/ info.value = None THEN people
        ELSE people \cup {info.value[1]}

\* creator and assignee are resolved in one try block: a failure on the
\* creator leaves the assignee unresolved
PeopleInOneTry(issue) ==
    IF best_effort_basic_expert_info(issue.creator).raised THEN {}
    ELSE AddPerson(AddPerson({}, issue.creator), issue.assignee)

\* people = set(), then the creator's try block, then the assignee's
People(issue) == AddPerson(AddPerson({}, issue.creator), issue.assignee)

\* primary_owners=list(people) or None (the list holds the set's elements)
PrimaryOwners(people) == IF people = {} THEN None ELSE Some(people)

Document(client, issue) ==
    [id             |-> PageUrl(client, issue.key),
     key            |-> issue.key,
     size           |-> TicketContentBytes(issue.description, issue.comments),
     primary_owners |-> PrimaryOwners(People(issue))]

SlimDocument(client, issue) ==
    [id |-> build_jira_url(client, issue.key), perm_sync_data |-> None]

\* the first next(): the body runs up to the pager's first search
PullFirst ==
    /\ pc = "created"
    /\ pulls' = pulls + 1
    /\ IF ClientMissing(jira_client)
       THEN /\ pc' = "failed"
            /\ error' = MissingCredential
            /\ UNCHANGED call
       ELSE /\ pc' = "search"
            /\ call' = PagerCall(mode, config.jira_project, args, jira_client)
            /\ UNCHANGED error
    /\ UNCHANGED <<jira_client, config, env, mode, args, requests, start, issues,
                   idx, yielded, checked, document_batch, emitted>>

SearchRequest ==
    [call |-> "search_issues", jql_str |-> call.jql, startAt |-> start,
     maxResults |-> call.max_results, fields |-> call.fields]

\* the batch being accumulated is handed over before the exception leaves
PropagateAfterFlush(e) ==
    /\ pc' = "failed"
    /\ error' = e
    /\ emitted' = Append(emitted, document_batch)

\* an exception raised inside the pager leaves the generators that drive it:
\* none of them catches it, none yields on the way out
Propagate(e) ==
    /\ pc' = "failed"
    /\ error' = e
    /\ UNCHANGED emitted

\* issues = jira_client.search_issues(...)
SearchIssues ==
    /\ pc = "search"
    /\ requests' = Append(requests, SearchRequest)
    /\ LET page == ServedPage(env, start, call.max_results)
       IN  \/ /\ issues' = page
              /\ idx' = 0
              /\ pc' = "page"
              /\ UNCHANGED <<error, emitted>>
           \/ /\ env.faulty
              /\ \E j \in {1, Len(page)} \cap DOMAIN page :
                    issues' = JunkPage(page, j)
              /\ idx' = 0
              /\ pc' = "page"
              /\ UNCHANGED <<error, emitted>>
           \/ /\ env.faulty
              /\ Propagate(Raise("JIRAError", <<"search failed">>))
              /\ UNCHANGED <<issues, idx>>
    /\ UNCHANGED <<jira_client, config, env, mode, args, pulls, call, start,
                   yielded, checked, document_batch>>

\* full batches are collected without waiting for the caller to pull them
AccumulateEagerly(doc) ==
    LET batch == Append(document_batch, doc)
    IN  IF BatchFull(batch, BatchSizeOf(mode, config))
        THEN /\ emitted' = Append(emitted, batch)
             /\ document_batch' = <<>>
             /\ UNCHANGED pc
        ELSE /\ document_batch' = batch
             /\ UNCHANGED <<emitted, pc>>

\* the consumer of the pager appends a document and yields the batch when full
Accumulate(doc) ==
    LET batch == Append(document_batch, doc)
    IN  /\ document_batch' = batch
        /\ IF BatchFull(batch, BatchSizeOf(mode, config))
           THEN /\ emitted' = Append(emitted, batch)
                /\ pc' = "yielded"
           ELSE UNCHANGED <<emitted, pc>>

\* one turn of `for issue in issues`, and what the consumers do with the issue
NextIssue ==
    /\ pc = "page"
    /\ idx < Len(issues)
    /\ LET x == issues[idx + 1]
           issue == IssueAt(env, x)
       IN  IF ~IsIssue(x)
           THEN /\ Propagate(Raise("Exception",
                                    <<"Found Jira object not of type Issue: ", x>>))
                /\ UNCHANGED <<idx, yielded, checked, document_batch>>
           ELSE /\ idx' = idx + 1
                /\ yielded' = Append(yielded, x)
                /\ UNCHANGED error
                /\ IF mode = "slim"
                   THEN /\ Accumulate(SlimDocument(jira_client, issue))
                        /\ UNCHANGED checked
                   ELSE IF HasLabelToSkip(issue.labels, config.labels_to_skip)
                   THEN UNCHANGED <<checked, document_batch, emitted, pc>>
                   ELSE /\ checked' = Append(checked, x)
                        /\ IF ExceedsMaxSize(TicketContentBytes(issue.description,
                                                                issue.comments))
                           THEN UNCHANGED <<document_batch, emitted, pc>>
                           ELSE Accumulate(Document(call.jira_client, issue))
    /\ UNCHANGED <<jira_client, config, env, mode, args, pulls, requests, call,
                   start, issues>>

\* the offset is set to the page size instead of advanced by it
NextStartAssigned(offset, max_results) == max_results

\* start += max_results
NextStart(offset, max_results) == offset + max_results

\* the for loop over the page is over: stop after a short page, else advance
EndOfPage ==
    /\ pc = "page"
    /\ idx = Len(issues)
    /\ IF PageExhausted(issues, call.max_results)
       THEN /\ emitted' = Append(emitted, document_batch)
            /\ pc' = "final"
            /\ UNCHANGED start
       ELSE /\ start' = NextStart(start, call.max_results)
            /\ pc' = "search"
            /\ UNCHANGED emitted
    /\ UNCHANGED <<jira_client, config, env, mode, args, pulls, error, requests,
                   call, issues, idx, yielded, checked, document_batch>>

\* the batch that was handed over is kept and grows on
PullNextKeepingBatch ==
    /\ pc = "yielded"
    /\ pulls' = pulls + 1
    /\ pc' = "page"
    /\ UNCHANGED <<jira_client, config, env, mode, args, error, requests, call,
                   start, issues, idx, yielded, checked, emitted, document_batch>>

\* next() after a full batch: document_batch = [] and the loops go on
PullNext ==
    /\ pc = "yielded"
    /\ pulls' = pulls + 1
    /\ document_batch' = <<>>
    /\ pc' = "page"
    /\ UNCHANGED <<jira_client, config, env, mode, args, error, requests, call,
                   start, issues, idx, yielded, checked, emitted>>

\* next() after the last batch: the generator returns
PullLast ==
    /\ pc = "final"
    /\ pulls' = pulls + 1
    /\ pc' = "done"
    /\ UNCHANGED <<jira_client, config, env, mode, args, error, runVars>>

\* the caller stops consuming while the generator has more to do (after the
\* last batch nothing but the generator's return is left)
Abandon ==
    /\ pc \in {"created", "yielded"}
    /\ pc' = "abandoned"
    /\ UNCHANGED <<jira_client, config, env, mode, args, pulls, error, runVars>>

(***************************************************************************)
(* JiraConnector.validate_connector_settings                               *)
(***************************************************************************)
StatusCodes == {401, 403, 404, 429, 500}

\* what the remote may raise: an error carrying an HTTP status, or one
\* without a status_code attribute
RemoteErrors ==
    {[status_code |-> Some(c), text |-> "JiraError HTTP"] : c \in StatusCodes}
    \cup {[status_code |-> None, text |-> "Connection refused"]}

\* the except branch of self.jira_client.project(self.jira_project)
ProjectError(e, project) ==
    CASE e.status_code = Some(401) ->
           Raise("CredentialExpiredError",
                 <<"Jira credential appears to be expired or invalid (HTTP 401).">>)
      [] e.status_code = Some(403) ->
           Raise("InsufficientPermissionsError",
                 <<"Your Jira token does not have sufficient permissions for this project (HTTP 403).">>)
      [] e.status_code = Some(404) ->
           Raise("ConnectorValidationError",
                 <<"Jira project not found with key: ", project>>)
      [] e.status_code = Some(429) ->
           Raise("ConnectorValidationError",
                 <<"Validation failed due to Jira rate-limits being exceeded. Please try again later.">>)
      [] OTHER ->
           Raise("RuntimeError",
                 <<"Unexpected Jira error during validation: ", e.text>>)

\* the except branch of self.jira_client.projects()
ProjectsError(e) ==
    CASE e.status_code = Some(401) ->
           Raise("CredentialExpiredError",
                 <<"Jira credential appears to be expired or invalid (HTTP 401).">>)
      [] e.status_code = Some(403) ->
           Raise("InsufficientPermissionsError",
                 <<"Your Jira token does not have sufficient permissions to list projects (HTTP 403).">>)
      [] e.status_code = Some(429) ->
           Raise("ConnectorValidationError",
                 <<"Validation failed due to Jira rate-limits being exceeded. Please try again later.">>)
      [] OTHER ->
           Raise("RuntimeError",
                 <<"Unexpected Jira error during validation: ", e.text>>)

\* the remote call validation makes: the project's descriptor, or the list
\* of accessible projects; `raised` is what the remote answered, None for
\* success and <<e>> for a raised e
ValidationRequest(project, raised) ==
    IF Truthy(project)
    THEN [call |-> "project", id |-> project[1], raised |-> raised]
    ELSE [call |-> "projects", raised |-> raised]

\* the scoped branch handles the error as the unscoped branch does
ValidationErrorUnscoped(e, project) == ProjectsError(e)

\* an error without a classified status is logged and validation returns
ValidationErrorSwallowed(e, project) ==
    IF e.status_code \in {Some(401), Some(403), Some(404), Some(429)}
    THEN IF Truthy(project) THEN ProjectError(e, project[1]) ELSE ProjectsError(e)
    ELSE NoError

ValidationError(e, project) ==
    IF Truthy(project) THEN ProjectError(e, project[1]) ELSE ProjectsError(e)

ValidationOutcome(raised) ==
    /\ mode' = "validate"
    /\ args' = <<None, None>>
    /\ pulls' = 0
    /\ IF ClientMissing(jira_client)
       THEN /\ requests' = <<>>
            /\ error' = MissingCredential
       ELSE /\ requests' = <<ValidationRequest(config.jira_project, raised)>>
            /\ error' = IF raised = None THEN NoError
                        ELSE ValidationError(raised[1], config.jira_project)
    /\ pc' = IF error' = NoError THEN "done" ELSE "failed"
    /\ call' = NoCall
    /\ start' = 0
    /\ issues' = <<>>
    /\ idx' = 0
    /\ yielded' = <<>>
    /\ checked' = <<>>
    /\ document_batch' = <<>>
    /\ emitted' = <<>>
    /\ UNCHANGED <<config, env>>

\* a credential the remote rejects as expired is dropped from the connector
ValidatedDroppingClient(raised) ==
    /\ ValidationOutcome(raised)
    /\ jira_client' = IF error'.type = "CredentialExpiredError" THEN None
                      ELSE jira_client

\* validation reads self._jira_client and never assigns it
Validated(raised) ==
    /\ ValidationOutcome(raised)
    /\ UNCHANGED jira_client

validate_connector_settings ==
    /\ ~Pulling
    /\ \E raised \in {None} \cup {Some(e) : e \in RemoteErrors} : Validated(raised)

Next ==
    \/ \E credentials \in env.credentials : load_credentials(credentials)
    \/ load_from_state
    \/ poll_source
    \/ retrieve_all_slim_documents
    \/ validate_connector_settings
    \/ PullFirst
    \/ SearchIssues
    \/ NextIssue
    \/ EndOfPage
    \/ PullNext
    \/ PullLast
    \/ Abandon

Spec == Init /\ [][Next]_vars

(***************************************************************************)
(* Properties.                                                             *)
(***************************************************************************)
\* the generator ran to its end: the last batch has been handed over
Completed == mode \in RetrievalModes /\ pc \in {"final", "done"}

Ceil(a, b) == (a + b - 1) \div b

\* the records 1..n, each once, in the remote's order
InOrder(n) == [k \in 1..n |-> k]

\* C1: over a result set of N records served page by page, a pagination run
\* that completes has issued ceil(N/P) search requests when P does not divide
\* N and N/P + 1 when it does (N = 0 included), and has yielded exactly the N
\* records, each once, in their original order.
C1_PaginationTermination ==
    Completed =>
        LET P == call.max_results
            N == env.n
        IN  /\ Len(requests) = IF N % P = 0 THEN (N \div P) + 1 ELSE Ceil(N, P)
            /\ \A k \in 1..Len(requests) : requests[k].call = "search_issues"
            /\ yielded = InOrder(N)

\* a completed run over exactly two full pages: three requests
C1_Witness ==
    /\ Completed
    /\ env.n = 2 * call.max_results
    /\ Len(requests) = 3
    /\ Len(yielded) = env.n

\* the records that pass the label filter and the size filter
Survives(i) ==
    LET issue == IssueAt(env, i)
    IN  /\ (issue.labels \cap config.labels_to_skip) = {}
        /\ TicketContentBytes(issue.description, issue.comments)
               <= JIRA_CONNECTOR_MAX_TICKET_SIZE

\* C2: a completed load_from_state or poll_source with batch size B >= 1 and M
\* surviving documents has yielded floor(M/B) batches of exactly B documents
\* followed by exactly one final batch of M mod B documents, which is yielded
\* even when empty; B may be smaller than, equal to or larger than the page size.
C2_BatchShape ==
    (Completed /\ mode \in {"load", "poll"}) =>
        LET B == config.batch_size
            M == Cardinality({i \in 1..env.n : Survives(i)})
        IN  /\ Len(emitted) = (M \div B) + 1
            /\ \A k \in 1..(M \div B) : Len(emitted[k]) = B
            /\ Len(emitted[Len(emitted)]) = M % B

\* a batch size above the page size, one full batch, and the empty final batch
C2_Witness ==
    /\ Completed
    /\ mode = "load"
    /\ config.batch_size > _JIRA_FULL_PAGE_SIZE
    /\ Len(emitted) = 2
    /\ Len(emitted[1]) = config.batch_size
    /\ emitted[2] = <<>>

\* a step in which the body of an operation starts to run
BodyStarts == PullFirst \/ validate_connector_settings

\* C3: while the connector has no client, a retrieval operation
\* (load_from_state, poll_source, retrieve_all_slim_documents, at its first
\* pull) and validate_connector_settings fail with
\* ConnectorMissingCredentialError, no batch is emitted and no remote call is
\* issued; once load_credentials has stored a client, they no longer fail
\* with that error.
C3_MissingCredential ==
    /\ [](jira_client = None =>
            /\ requests = <<>>
            /\ emitted = <<>>
            /\ pc \in {"idle", "created", "failed", "abandoned"}
            /\ (pc = "failed" => error.type = "ConnectorMissingCredentialError"))
    /\ [][BodyStarts =>
            IF jira_client = None
            THEN /\ pc' = "failed"
                 /\ error'.type = "ConnectorMissingCredentialError"
                 /\ requests' = <<>>
                 /\ emitted' = <<>>
            ELSE error'.type # "ConnectorMissingCredentialError"]_vars

\* the first pull of the identifier listing has failed for want of a client
C3_Witness ==
    /\ jira_client = None
    /\ mode = "slim"
    /\ pulls = 1
    /\ pc = "failed"
    /\ error.type = "ConnectorMissingCredentialError"

\* C4 as stated: whenever a batch is handed to the caller, the number of
\* search requests issued so far is ceil(records consumed / page size).
C4_RequestsAtHandover ==
    (mode \in RetrievalModes /\ pc \in {"yielded", "final"}) =>
        Len(requests) = Ceil(Len(yielded), call.max_results)

\* C4, amended: a search request is issued only while a pull is outstanding
\* (more pulls than batches handed over), never between pulls or after the
\* caller stopped; when a full batch is handed over, the requests issued are
\* ceil(records consumed / page size); when the final batch is handed over,
\* they are floor(records consumed / page size) + 1, the last one being the
\* request that returned the short (possibly empty) page.
C4_PullDriven ==
    /\ [](mode \in RetrievalModes =>
            /\ Len(emitted) <= pulls
            /\ (pc = "yielded" =>
                    Len(requests) = Ceil(Len(yielded), call.max_results))
            /\ (pc = "final" =>
                    Len(requests) = (Len(yielded) \div call.max_results) + 1))
    /\ [][(mode' \in RetrievalModes /\ Len(requests') > Len(requests)) =>
            (Len(emitted) < pulls /\ pulls' = pulls)]_vars

\* a full batch handed over at the end of the first page: one request so far
C4_Witness ==
    /\ mode = "load"
    /\ pc = "yielded"
    /\ Len(yielded) = call.max_results
    /\ env.n > call.max_results
    /\ Len(requests) = 1

\* validate_connector_settings has made its remote call
ValidationCalled == mode = "validate" /\ requests # <<>>

\* the HTTP status the remote's error carried: a singleton, or empty
RaisedStatus == IF ValidationCalled /\ requests[1].raised # None
                THEN requests[1].raised[1].status_code ELSE None

\* C5: with a client and a project scope configured, validation maps the
\* outcome of the project-descriptor fetch: HTTP 401 raises
\* CredentialExpiredError, 403 raises InsufficientPermissionsError, 404 raises
\* ConnectorValidationError whose message contains the configured project
\* key, and a successful fetch returns normally.
C5_ScopedStatusMapping ==
    (ValidationCalled /\ requests[1].call = "project") =>
        /\ requests[1].id = config.jira_project[1]
        /\ (requests[1].raised = None => (pc = "done" /\ error.type = "none"))
        /\ (RaisedStatus = <<401>> =>
                (pc = "failed" /\ error.type = "CredentialExpiredError"))
        /\ (RaisedStatus = <<403>> =>
                (pc = "failed" /\ error.type = "InsufficientPermissionsError"))
        /\ (RaisedStatus = <<404>> =>
                /\ pc = "failed"
                /\ error.type = "ConnectorValidationError"
                /\ config.jira_project[1] \in Range(error.msg))

\* the project was not found: the error names its key
C5_Witness ==
    /\ ValidationCalled
    /\ requests[1].call = "project"
    /\ RaisedStatus = <<404>>
    /\ error.type = "ConnectorValidationError"
    /\ "OPS" \in Range(error.msg)

\* C6: whenever the remote answers validation with HTTP 404 or 429, with or
\* without a project scope, validation fails with ConnectorValidationError.
C6_NotFoundOrRateLimited ==
    (ValidationCalled /\ RaisedStatus \in {<<404>>, <<429>>}) =>
        (pc = "failed" /\ error.type = "ConnectorValidationError")

\* C7: validation returns normally exactly when its remote call succeeded,
\* with or without a project scope, and a remote failure whose status is none
\* of 401, 403, 404, 429 (a failure without a status included) is raised again
\* as a RuntimeError whose message carries the original message.
C7_NeverSwallowed ==
    ValidationCalled =>
        /\ (pc = "done") = (requests[1].raised = None)
        /\ (pc = "failed") = (requests[1].raised # None)
        /\ (pc = "failed") = (error.type # "none")
        /\ (requests[1].raised # None
            /\ RaisedStatus \notin {<<401>>, <<403>>, <<404>>, <<429>>}) =>
                /\ error.type = "RuntimeError"
                /\ requests[1].raised[1].text \in Range(error.msg)

\* listing the projects failed without any HTTP status
C7_Witness ==
    /\ ValidationCalled
    /\ requests[1].call = "projects"
    /\ requests[1].raised # None
    /\ RaisedStatus = None
    /\ pc = "failed"
    /\ error.type = "RuntimeError"

\* the start of the minute the second s lies in
MinuteFloor(s) == s - (s % 60)

\* the scope filter and the conjunction, written out
ScopePrefix ==
    IF config.jira_project \in {None, <<"">>} THEN ""
    ELSE "project = \"" \o config.jira_project[1] \o "\" AND "

WindowPredicate(startSecond, endSecond) ==
    "updated >= '" \o strftime(MinuteFloor(startSecond))
    \o "' AND updated <= '" \o strftime(MinuteFloor(endSecond)) \o "'"

\* C8 as stated: the window bounds are the renderings of start and end
\* floored to the minute, whatever their sub-minute part.
C8_FlooredToMinute ==
    mode = "poll" =>
        \A k \in 1..Len(requests) :
            requests[k].jql_str =
                ScopePrefix \o WindowPredicate(args[1][1].sec, args[2][1].sec)

\* an epoch value as datetime.fromtimestamp sees it: rounded to the nearest
\* microsecond, so 0.9999995 s and more of fraction carry into the next second
NearestMicrosecond(t) == IF t.frac >= 9999995 THEN t.sec + 1 ELSE t.sec

\* C8, amended: poll_source sends project = "<key>" AND <window> when a project
\* is configured (the scope filter on the left) and <window> alone, without a
\* leading AND, when none is; <window> is updated >= '<S>' AND updated <= '<E>'
\* with S and E the UTC YYYY-MM-DD HH:MM renderings of start and end rounded
\* to the nearest microsecond and then truncated to the minute.  Epoch values
\* that are whole microseconds are thereby floored to their minute; a value
\* less than half a microsecond below a minute boundary renders as the next
\* minute.  For start = 1700000000, end = 1700003600 and project OPS the query
\* is project = "OPS" AND updated >= '2023-11-14 22:13' AND updated <=
\* '2023-11-14 23:13'.
C8_TimeWindowQuery ==
    mode = "poll" =>
        \A k \in 1..Len(requests) :
            /\ requests[k].jql_str =
                   ScopePrefix \o WindowPredicate(NearestMicrosecond(args[1][1]),
                                                  NearestMicrosecond(args[2][1]))
            /\ (args[1][1].frac % TicksPerMicro = 0 /\ args[2][1].frac % TicksPerMicro = 0) =>
                   requests[k].jql_str =
                       ScopePrefix \o WindowPredicate(args[1][1].sec, args[2][1].sec)
            /\ (args = <<Some(Epoch(1700000000, 0)), Some(Epoch(1700003600, 0))>>
                /\ config.jira_project = Some("OPS")) =>
                   requests[k].jql_str =
                       "project = \"OPS\" AND updated >= '2023-11-14 22:13' AND updated <= '2023-11-14 23:13'"

\* the spec's example, and a window whose bounds lie 39 s into their minutes
C8_Witness ==
    /\ mode = "poll"
    /\ requests # <<>>
    /\ args = <<Some(Epoch(1700000039, 0)), Some(Epoch(1700003600, 0))>>
    /\ requests[1].jql_str =
           "project = \"OPS\" AND updated >= '2023-11-14 22:13' AND updated <= '2023-11-14 23:13'"

\* the scope-only query, written out
ScopeOnly ==
    IF config.jira_project \in {None, <<"">>} THEN ""
    ELSE "project = \"" \o config.jira_project[1] \o "\""

\* C9: every search request of retrieve_all_slim_documents(start, end) carries
\* the scope-only query, whatever start and end are (absent included), asks
\* for the key field only and for pages of 500; its batches are full batches
\* of exactly 500 followed, at completion, by exactly one final batch of the
\* remaining N mod 500 identifiers, whatever the configured batch_size.
C9_SlimListing ==
    mode = "slim" =>
        /\ \A k \in 1..Len(requests) :
              /\ requests[k].call = "search_issues"
              /\ requests[k].jql_str = ScopeOnly
              /\ requests[k].fields = <<"key">>
              /\ requests[k].maxResults = 500
        /\ \A k \in 1..Len(emitted) :
              k < Len(emitted) \/ ~Completed => Len(emitted[k]) = 500
        /\ Completed =>
              /\ Len(emitted) = (env.n \div 500) + 1
              /\ Len(emitted[Len(emitted)]) = env.n % 500

\* a listing called with time bounds, over 500 records or more, completed:
\* a full batch of 500 and a final one, with a configured batch_size of 50
C9_Witness ==
    /\ mode = "slim"
    /\ pc = "done"
    /\ args # <<None, None>>
    /\ config.batch_size = 50
    /\ Len(emitted) = 2
    /\ Len(emitted[1]) = 500

\* the record carries a label of a non-empty labels_to_skip
Excluded(i) ==
    /\ config.labels_to_skip # {}
    /\ (IssueAt(env, i).labels \cap config.labels_to_skip) # {}

\* the documents produced so far, batch by batch (at a yield, and when the
\* caller stops there, document_batch still holds the batch just handed over)
Batches ==
    IF pc \in {"yielded", "final", "done", "abandoned"} THEN emitted
    ELSE Append(emitted, document_batch)

\* C10: no document of the transformer's output comes from a record whose
\* labels intersect a non-empty labels_to_skip; such a record is skipped
\* without an error and the stream goes on; every other record, and every
\* record when labels_to_skip is empty, reaches content assembly and the size
\* check.
C10_LabelFilter ==
    mode \in {"load", "poll"} =>
        /\ \A b \in 1..Len(Batches) : \A d \in 1..Len(Batches[b]) :
              ~Excluded(Batches[b][d].key)
        /\ checked = SelectSeq(yielded, LAMBDA i : ~Excluded(i))
        /\ (pc = "failed" /\ ~env.faulty) =>
              error.type = "ConnectorMissingCredentialError"
        /\ (Completed /\ ~env.faulty) => yielded = InOrder(env.n)

\* records with a label to skip were passed over, records with other labels
\* were kept, and the run completed
C10_Witness ==
    /\ mode = "load"
    /\ pc = "done"
    /\ config.labels_to_skip = {"secret"}
    /\ env.shape = <<"plain", "public", "mixed">>
    /\ Len(yielded) > Len(checked)
    /\ Len(checked) > 0

\* every batch but the last holds exactly the batch size of the mode
FullBatches ==
    \A b \in 1..(Len(Batches) - 1) : Len(Batches[b]) = BatchSizeOf(mode, config)

\* the documents produced so far, in the order they were produced: the
\* concatenation of Batches, indexed through the size of the full batches
Produced ==
    LET B     == BatchSizeOf(mode, config)
        nb    == Len(Batches)
        total == IF nb = 0 THEN 0 ELSE (nb - 1) * B + Len(Batches[nb])
    IN  [k \in 1..total |-> Batches[((k - 1) \div B) + 1][((k - 1) % B) + 1]]

KeysOf(docs) == [k \in 1..Len(docs) |-> docs[k].key]

\* L: the UTF-8 byte length of the content assembled for record i
ContentBytes(i) ==
    LET kind == KindAt(env.shape, i)
    IN  TicketContentBytes(DescriptionBytes(kind), CommentBytes(kind))

\* C11: of the records that pass the label filter, exactly those whose
\* assembled content has a UTF-8 byte length L <= MAX yield a document (L = MAX
\* included) and those with L >= MAX + 1 yield none; dropping a record raises
\* no error and the records after it are processed.  (Stated of the states in
\* which the caller has control: between pulls and after the run.)
C11_SizeFilter ==
    (mode \in {"load", "poll"} /\ ~Pulling) =>
        /\ FullBatches
        /\ LET produced == Produced
               keys     == KeysOf(produced)
               kept     == Range(keys)
           IN  /\ keys = SelectSeq(checked,
                             LAMBDA i : ContentBytes(i) <= JIRA_CONNECTOR_MAX_TICKET_SIZE)
               /\ \A k \in 1..Len(checked) :
                     ContentBytes(checked[k]) >= JIRA_CONNECTOR_MAX_TICKET_SIZE + 1 =>
                         checked[k] \notin kept
               /\ \A k \in 1..Len(produced) :
                     produced[k].size <= JIRA_CONNECTOR_MAX_TICKET_SIZE
        /\ (pc = "failed" /\ ~env.faulty) =>
              error.type = "ConnectorMissingCredentialError"
        /\ (Completed /\ ~env.faulty) =>
              checked = SelectSeq(InOrder(env.n), LAMBDA i : ~Excluded(i))

\* a record of exactly MAX bytes was kept after a record of MAX + 1 bytes was
\* dropped, and the run completed
C11_Witness ==
    /\ mode = "load"
    /\ pc = "done"
    /\ \E k \in 1..Len(Produced) :
          /\ Produced[k].size = JIRA_CONNECTOR_MAX_TICKET_SIZE
          /\ \E i \in Range(checked) :
                /\ i < Produced[k].key
                /\ ContentBytes(i) = JIRA_CONNECTOR_MAX_TICKET_SIZE + 1
                /\ i \notin Range(KeysOf(Produced))

\* the field holds a person that can be described
Resolvable(ref) == ref \in {"alice", "bob"}

\* C12: creator and assignee are resolved independently.  Every record that
\* passes the filters yields a document, whatever its creator and assignee
\* hold; the owners of the document are exactly the resolvable ones of the
\* two, so a failure on either never hides the other; a malformed assignee
\* with a valid creator gives exactly one owner; when neither resolves the
\* owners are None, never an empty list; a creator who is also the assignee
\* gives one owner.  (Stated of the states in which the caller has control.)
C12_OwnerResilience ==
    (mode \in {"load", "poll"} /\ ~Pulling) =>
        /\ FullBatches
        /\ LET produced == Produced
           IN  /\ Len(produced) =
                    Cardinality({k \in 1..Len(checked) :
                        ContentBytes(checked[k]) <= JIRA_CONNECTOR_MAX_TICKET_SIZE})
               /\ \A k \in 1..Len(produced) :
                    LET issue  == [creator  |-> OwnersAt(produced[k].key)[1],
                                   assignee |-> OwnersAt(produced[k].key)[2]]
                        owners == produced[k].primary_owners
                        names  == {r \in {issue.creator, issue.assignee} :
                                      Resolvable(r)}
                    IN  /\ owners # <<{}>>
                        /\ (owners = None) = (names = {})
                        /\ owners # None =>
                              {o.display_name : o \in owners[1]} = names
                        /\ (issue.assignee = "malformed" /\ Resolvable(issue.creator))
                              => Cardinality(owners[1]) = 1
                        /\ (issue.creator = "malformed" /\ Resolvable(issue.assignee))
                              => Cardinality(owners[1]) = 1
                        /\ (issue.creator = issue.assignee /\ Resolvable(issue.creator))
                              => Cardinality(owners[1]) = 1
        /\ (pc = "failed" /\ ~env.faulty) =>
              error.type = "ConnectorMissingCredentialError"

\* a completed run produced a document with one owner for a malformed
\* assignee, one for a malformed creator, one for a creator who is the
\* assignee, and one without owners for a record where both fail
C12_Witness ==
    /\ mode = "load"
    /\ pc = "done"
    /\ \E a, b, c, d \in 1..Len(Produced) :
          /\ IssueAt(env, Produced[a].key).assignee = "malformed"
          /\ Produced[a].primary_owners = <<{[display_name |-> "alice"]}>>
          /\ IssueAt(env, Produced[b].key).creator = "malformed"
          /\ Produced[b].primary_owners = <<{[display_name |-> "bob"]}>>
          /\ IssueAt(env, Produced[c].key).creator = "alice"
          /\ IssueAt(env, Produced[c].key).assignee = "alice"
          /\ Cardinality(Produced[c].primary_owners[1]) = 1
          /\ IssueAt(env, Produced[d].key).creator = "malformed"
          /\ IssueAt(env, Produced[d].key).assignee = "absent"
          /\ Produced[d].primary_owners = None

\* the pager stands before an element that is not a record
AtNonRecord ==
    /\ mode \in RetrievalModes
    /\ pc = "page"
    /\ idx < Len(issues)
    /\ issues[idx + 1] = NotAnIssue

\* the pager failed on an element that is not a record
UnexpectedRecordType ==
    mode \in RetrievalModes /\ pc = "failed" /\ error.type = "Exception"

\* C13: when an element of a page is not a record the pager fails at that
\* element with the unexpected-record error: the step that reaches it raises,
\* yields nothing and issues no request; the elements before it in the page
\* have been yielded, no element after it (and never the element itself) is
\* yielded, and the run issues no further search request.
C13_UnexpectedRecord ==
    /\ [](mode \in RetrievalModes =>
            /\ \A k \in 1..Len(yielded) : yielded[k] # NotAnIssue
            /\ \A k \in 1..idx : issues[k] # NotAnIssue
            /\ error.type = "Exception" => UnexpectedRecordType
            /\ UnexpectedRecordType =>
                  /\ idx < Len(issues)
                  /\ issues[idx + 1] = NotAnIssue
                  /\ Len(yielded) = start + idx
                  /\ SubSeq(yielded, start + 1, start + idx) = SubSeq(issues, 1, idx)
                  /\ Len(requests) = (start \div call.max_results) + 1
                  /\ requests[Len(requests)].startAt = start)
    /\ [][AtNonRecord =>
            /\ pc' = "failed"
            /\ error'.type = "Exception"
            /\ UNCHANGED <<yielded, requests, emitted, idx>>]_vars
    /\ [][UnexpectedRecordType =>
            \/ UNCHANGED <<requests, yielded>>
            \/ pc' = "created"
            \/ mode' = "validate"]_vars

\* the last element of a full first page was not a record: the 49 records
\* before it were yielded and the one request stayed the only one
C13_Witness ==
    /\ UnexpectedRecordType
    /\ start = 0
    /\ Len(issues) = call.max_results
    /\ idx = Len(issues) - 1
    /\ Len(yielded) = idx
    /\ Len(requests) = 1

\* a retrieval failed in the pager or the transformer: the remote search call
\* failed, or an element was not a record
RetrievalFailed ==
    /\ mode \in RetrievalModes
    /\ pc = "failed"
    /\ error.type \in {"JIRAError", "Exception"}

\* the deep link of record i under the configured base URL
DeepLink(i) == config.jira_base \o "/browse/OPS-" \o Decimal(i)

\* the yielded records that become a document in the mode that is running
Accepted ==
    IF mode = "slim" THEN yielded
    ELSE SelectSeq(checked,
                   LAMBDA i : ContentBytes(i) <= JIRA_CONNECTOR_MAX_TICKET_SIZE)

\* C14: a failed search call or an element that is not a record, in
\* load_from_state, poll_source or retrieve_all_slim_documents, surfaces on
\* the pull during which it occurs (that pull returns no batch).  The batch
\* that was accumulating is not emitted, no batch (no final remainder either)
\* is emitted after the error, and the batches emitted before it are full
\* batches, each emitted once: together they hold the first documents of the
\* run in order, the accumulating batch holds the rest.
C14_FailureLosesBatch ==
    /\ [](RetrievalFailed =>
            LET B == BatchSizeOf(mode, config)
            IN  /\ pulls = Len(emitted) + 1
                /\ \A b \in 1..Len(emitted) :
                      /\ Len(emitted[b]) = B
                      /\ \A d \in 1..B :
                            emitted[b][d].id = DeepLink(Accepted[(b - 1) * B + d])
                /\ Len(document_batch) < B
                /\ Len(Accepted) = Len(emitted) * B + Len(document_batch)
                /\ \A d \in 1..Len(document_batch) :
                      document_batch[d].id =
                          DeepLink(Accepted[Len(emitted) * B + d]))
    /\ [][(Pulling /\ pc' = "failed") =>
            (RetrievalFailed' /\ UNCHANGED <<emitted, pulls, document_batch>>)]_vars
    /\ [][RetrievalFailed =>
            \/ UNCHANGED <<emitted, pulls>>
            \/ pc' = "created"
            \/ mode' = "validate"]_vars

\* the second page could not be fetched after one full batch was emitted and
\* while the next batch was accumulating: that batch is lost
C14_Witness ==
    /\ RetrievalFailed
    /\ mode = "load"
    /\ error.type = "JIRAError"
    /\ Len(requests) = 2
    /\ Len(emitted) > 0
    /\ document_batch # <<>>
    /\ pulls = Len(emitted) + 1

\* the connector's phase
Ready == jira_client # None

\* C15: the phase only moves from Uninitialized to Ready.  No step clears the
\* stored client handle, and a step that changes it is a load_credentials
\* step storing the handle built from the credentials passed; so a connector
\* that is Ready stays Ready through failing validations, failing or
\* abandoned retrievals and repeated load_credentials.
C15_PhaseMonotone ==
    /\ [][Ready => Ready']_vars
    /\ [][jira_client' # jira_client =>
            \E credentials \in env.credentials : load_credentials(credentials)]_vars
    /\ [][(validate_connector_settings \/ Abandon \/ (Pulling /\ pc' = "failed"))
            => UNCHANGED jira_client]_vars

\* the handle built from the renewed credentials is still there after a
\* validation that failed with expired credentials
C15_Witness ==
    /\ Ready
    /\ jira_client[1].credentials = "renewed"
    /\ mode = "validate"
    /\ pc = "failed"
    /\ error.type = "CredentialExpiredError"

\* C16: when load_from_state or poll_source has completed over a stable
\* result set, the emitted batches concatenated in emission order are the
\* documents of exactly the records the pager returned that pass the label
\* filter and the size filter, in the pager's order: one document per
\* surviving record, none twice, none for a filtered record, each carrying
\* the deep link of its record.
C16_ExactlyTheSurvivors ==
    (Completed /\ mode \in {"load", "poll"}) =>
        /\ Batches = emitted
        /\ FullBatches
        /\ LET produced == Produced
               keys     == KeysOf(produced)
           IN  /\ keys = SelectSeq(yielded, Survives)
               /\ \A k \in 1..(Len(keys) - 1) : keys[k] < keys[k + 1]
               /\ \A k \in 1..Len(keys) :
                     /\ Survives(keys[k])
                     /\ produced[k].id = DeepLink(keys[k])
               /\ ~env.faulty =>
                     /\ yielded = InOrder(env.n)
                     /\ Len(keys) = Cardinality({i \in 1..env.n : Survives(i)})

\* a completed poll whose records were partly dropped by the label filter and
\* partly by the size filter, the rest spread over several batches
C16_Witness ==
    /\ mode = "poll"
    /\ pc = "done"
    /\ Len(emitted) >= 3
    /\ Len(emitted[2]) > 1
    /\ \E i, j \in Range(yielded) :
          /\ Excluded(i)
          /\ ContentBytes(j) > JIRA_CONNECTOR_MAX_TICKET_SIZE
          /\ {i, j} \cap Range(KeysOf(Produced)) = {}
    /\ Len(Produced) > 0

\* the pager has passed every element of the page it holds
PageConsumed == pc = "page" /\ idx = Len(issues)

\* C17: the k-th search request of a pagination run (k = 0, 1, 2, ...)
\* carries offset k * pageSize.  The offset starts at 0, advances by exactly
\* pageSize after a page of at least pageSize elements and at no other time,
\* never decreases and is never requested twice; after a page of fewer than
\* pageSize elements (an empty page included) the run issues no further
\* request.
C17_OffsetSequence ==
    /\ [](mode \in RetrievalModes =>
            LET P == call.max_results
            IN  /\ \A k \in 1..Len(requests) :
                      /\ requests[k].startAt = (k - 1) * P
                      /\ requests[k].maxResults = P
                /\ start = IF pc = "search" THEN Len(requests) * P
                           ELSE Max(0, Len(requests) - 1) * P
                /\ (pc = "search" /\ requests # <<>>) => Len(issues) >= P
                /\ pc \in {"final", "done"} =>
                      (Len(issues) < P /\ Len(requests) = (start \div P) + 1))
    /\ [][PageConsumed =>
            IF Len(issues) < call.max_results
            THEN /\ pc' = "final"
                 /\ UNCHANGED <<start, requests>>
            ELSE /\ pc' = "search"
                 /\ start' = start + call.max_results
                 /\ UNCHANGED requests]_vars
    /\ [][(mode \in RetrievalModes /\ mode' = mode /\ pc' # "created") =>
            /\ start' >= start
            /\ (start' # start => PageConsumed)
            /\ (requests' # requests =>
                    /\ pc = "search"
                    /\ requests' = Append(requests, requests'[Len(requests')])
                    /\ requests'[Len(requests')].startAt = start)]_vars

\* a completed run of three requests: two full pages and an empty one
C17_Witness ==
    /\ mode \in RetrievalModes
    /\ pc = "final"
    /\ Len(requests) = 3
    /\ requests[3].startAt = 2 * call.max_results
    /\ issues = <<>>
    /\ start = 2 * call.max_results

\* C18: the id of a document is a function of the base URL and the record
\* key alone.  In every run of load_from_state, poll_source and
\* retrieve_all_slim_documents, whatever credentials are loaded, the document
\* made from record i has the id <base URL>/browse/<key of i> (so the same
\* record has the same id in every run, and the slim id equals the full
\* document's id), and the ids of a completed run are pairwise different.
\* (Stated of the states in which the caller has control.)
C18_IdScheme ==
    (mode \in RetrievalModes /\ ~Pulling) =>
        /\ FullBatches
        /\ LET produced == Produced
               records  == IF mode = "slim" THEN yielded ELSE KeysOf(produced)
           IN  /\ Len(produced) = Len(records)
               /\ \A k \in 1..Len(produced) :
                     /\ produced[k].id = DeepLink(records[k])
                     /\ records[k] = 12 =>
                           produced[k].id = "https://jira.example.com/browse/OPS-12"
               /\ Completed =>
                     Cardinality({produced[k].id : k \in 1..Len(produced)})
                         = Len(records)

\* a slim listing, completed under the renewed credentials, holding the same
\* id for record 12 as the full load gives it
C18_Witness ==
    /\ mode = "slim"
    /\ pc = "done"
    /\ jira_client[1].credentials = "renewed"
    /\ Len(Produced) > 12
    /\ Produced[12].id = "https://jira.example.com/browse/OPS-12"
    /\ Produced[12].id # Produced[2].id

\* the starts of the minutes the poll times lie in, and of the minutes after
CandidateMinutes ==
    UNION {{MinuteFloor(t.sec), MinuteFloor(t.sec) + 60} : t \in PollTimes}

\* a remote that evaluates the time window at minute granularity reads the two
\* bounds back from the query text: <<from, to>> as starts of minutes, or <<>>
\* when the text is not a time-window query of this connector
WindowOf(jql) ==
    LET read == {w \in CandidateMinutes \X CandidateMinutes :
                    jql = ScopePrefix \o WindowPredicate(w[1], w[2])}
    IN  IF read = {} THEN <<>> ELSE CHOOSE w \in read : TRUE

\* a record updated in the minute starting at u matches the query
Matches(u, jql) ==
    LET w == WindowOf(jql)
    IN  w # <<>> /\ w[1] <= u /\ u <= w[2]

\* the polls poll_source(s, m) of the caller that end where the running poll,
\* poll_source(m, e), starts
PrecedingPolls == {w \in env.windows : Some(w[2]) = args[1]}

\* the running poll has sent its query
Polling == mode = "poll" /\ requests # <<>>

\* C19 as stated: with poll_source(s, m) followed by poll_source(m, e), every
\* update minute from the minute s lies in to the minute e lies in matches
\* the window of one of the two polls, and the minute m lies in matches both.
C19_MinuteOfBounds ==
    Polling =>
        \A p \in PrecedingPolls :
            LET first  == PollJql(config.jira_project, p[1], p[2])
                second == requests[1].jql_str
            IN  \A u \in CandidateMinutes :
                    /\ (MinuteFloor(p[1].sec) <= u /\ u <= MinuteFloor(args[2][1].sec))
                           => (Matches(u, first) \/ Matches(u, second))
                    /\ u = MinuteFloor(p[2].sec)
                           => (Matches(u, first) /\ Matches(u, second))

\* the start of the minute a bound is rendered as: the minute of the bound
\* rounded to the nearest microsecond
RenderedMinute(t) == MinuteFloor(NearestMicrosecond(t))

\* C19, amended: with poll_source(s, m) followed by poll_source(m, e),
\* s <= m <= e, every update minute from the rendered minute of s to the
\* rendered minute of e matches the window of one of the two polls, and the
\* rendered minute of m matches both, where the rendered minute of a bound is
\* the minute of the bound rounded to the nearest microsecond: the minute it
\* lies in for every whole-microsecond value, the next minute for a value less
\* than half a microsecond below a minute boundary.
C19_RenderedBounds ==
    Polling =>
        \A p \in PrecedingPolls :
            LET first  == PollJql(config.jira_project, p[1], p[2])
                second == requests[1].jql_str
            IN  /\ WindowOf(first) = <<RenderedMinute(p[1]), RenderedMinute(p[2])>>
                /\ WindowOf(second) =
                       <<RenderedMinute(args[1][1]), RenderedMinute(args[2][1])>>
                /\ \A u \in CandidateMinutes :
                      /\ (RenderedMinute(p[1]) <= u /\ u <= RenderedMinute(args[2][1]))
                             => (Matches(u, first) \/ Matches(u, second))
                      /\ u = RenderedMinute(p[2])
                             => (Matches(u, first) /\ Matches(u, second))
                      /\ (p[1].frac % TicksPerMicro = 0
                          /\ p[2].frac % TicksPerMicro = 0
                          /\ args[2][1].frac % TicksPerMicro = 0) =>
                             /\ RenderedMinute(p[1]) = MinuteFloor(p[1].sec)
                             /\ RenderedMinute(p[2]) = MinuteFloor(p[2].sec)
                             /\ RenderedMinute(args[2][1]) = MinuteFloor(args[2][1].sec)

\* the poll from 22:14:00 on is running after the poll up to 22:14:00: the
\* minute 22:14 matches both windows, the minute 22:13 only the first
C19_Witness ==
    /\ Polling
    /\ args = <<Some(Epoch(1700000040, 0)), Some(Epoch(1700003600, 0))>>
    /\ \E p \in PrecedingPolls :
          /\ p[1] = Epoch(0, 0)
          /\ Matches(1700000040, PollJql(config.jira_project, p[1], p[2]))
          /\ Matches(1700000040, requests[1].jql_str)
          /\ Matches(1699999980, PollJql(config.jira_project, p[1], p[2]))
          /\ ~Matches(1699999980, requests[1].jql_str)

====
